---- MODULE Spec2Model ----
(***************************************************************************)
(* A model of app.py, the IMDB sentiment classifier page.                  *)
(*                                                                         *)
(* One browser session is modelled.  Every interaction re-executes the     *)
(* script from its first line to its last: the two cached loaders, the     *)
(* button handler and the loop over the five example reviews.  A text is a *)
(* sequence of one-character strings, so that lower(), split() and strip() *)
(* are computed character by character.  A probability is a whole number   *)
(* of 1/ProbScale units.  The model file and the word index are taken to   *)
(* be available: a loader that raises is not modelled.                     *)
(***************************************************************************)
EXTENDS Integers, Sequences, FiniteSets, TLC

(***************************************************************************)
(* Bounds of the model.                                                    *)
(***************************************************************************)
MaxChars == 3
MaxTyped == 2
LongSlack == 2
MaxRuns == 2

(***************************************************************************)
(* Program constants (app.py lines 11-13) and the display precision of the *)
(* confidence value (line 140).                                            *)
(***************************************************************************)
VOCAB_SIZE == 10000
MAXLEN == 200
INDEX_OFFSET == 3
ProbDigits == 4

ProbScale == 10 ^ ProbDigits
Threshold == ProbScale \div 2

None == {}
Some(x) == {x}
Get(o) == CHOOSE x \in o : TRUE

(***************************************************************************)
(* Characters and the string methods the script uses.                      *)
(***************************************************************************)
UpperCase ==
    <<"A","B","C","D","E","F","G","H","I","J","K","L","M",
      "N","O","P","Q","R","S","T","U","V","W","X","Y","Z">>
LowerCase ==
    <<"a","b","c","d","e","f","g","h","i","j","k","l","m",
      "n","o","p","q","r","s","t","u","v","w","x","y","z">>
Whitespace == {" ", "\n", "\t"}

LowerChar(c) ==
    IF \E k \in 1..Len(UpperCase) : UpperCase[k] = c
    THEN LowerCase[CHOOSE k \in 1..Len(UpperCase) : UpperCase[k] = c]
    ELSE c

\* str.lower()
Lower(s) == [k \in 1..Len(s) |-> LowerChar(s[k])]

\* str.split() with no argument: the maximal runs of non-whitespace
\* characters, in order.  The text is split by halves, and a word that
\* spans the cut is joined again.
RECURSIVE SplitRange(_, _, _)
SplitRange(s, lo, hi) ==
    IF lo > hi THEN <<>>
    ELSE IF lo = hi
         THEN IF s[lo] \in Whitespace THEN <<>> ELSE <<(<<s[lo]>>)>>
         ELSE LET mid == (lo + hi) \div 2
                  l == SplitRange(s, lo, mid)
                  r == SplitRange(s, mid + 1, hi)
              IN IF s[mid] \notin Whitespace /\ s[mid + 1] \notin Whitespace
                 THEN SubSeq(l, 1, Len(l) - 1)
                      \o <<l[Len(l)] \o r[1]>>
                      \o Tail(r)
                 ELSE l \o r

Split(s) == SplitRange(s, 1, Len(s))

\* strip(" "): only blanks are stripped, a line break is kept
Strip_SpacesOnly(s) ==
    LET keep == {k \in 1..Len(s) : s[k] # " "}
    IN IF keep = {} THEN <<>>
       ELSE LET lo == CHOOSE k \in keep : \A m \in keep : k <= m
                hi == CHOOSE k \in keep : \A m \in keep : k >= m
            IN SubSeq(s, lo, hi)

\* str.strip() with no argument
Strip(s) ==
    LET keep == {k \in 1..Len(s) : s[k] \notin Whitespace}
    IN IF keep = {} THEN <<>>
       ELSE LET lo == CHOOSE k \in keep : \A m \in keep : k <= m
                hi == CHOOSE k \in keep : \A m \in keep : k >= m
            IN SubSeq(s, lo, hi)

(***************************************************************************)
(* The inputs: texts the user may type, vocabulary tables the word index   *)
(* may hold, probabilities the network may return.                         *)
(***************************************************************************)
Alphabet == {"a", "B", " ", "\n"}

ShortTexts == UNION {[1..n -> Alphabet] : n \in 0..MaxChars}

Repeat(s, n) == [k \in 1..(n * Len(s)) |-> s[((k - 1) % Len(s)) + 1]]

LongHeads == {<<>>, <<"B", " ">>}
LongTails == {<<>>, <<"b">>}
LongTexts ==
    {h \o Repeat(<<"a", "\n">>, n) \o t :
        h \in LongHeads,
        n \in (MAXLEN - LongSlack)..(MAXLEN + LongSlack),
        t \in LongTails}

ExampleText ==
    <<"t","h","e"," ","f","i","l","m"," ","w","a","s"," ","g","r","e","a",
      "t">>

Texts == ShortTexts \cup LongTexts \cup {ExampleText}

\* what the user types into the text area during the script runs
TypedTexts ==
    UNION {[1..n -> Alphabet] : n \in 0..MaxTyped}
    \cup LongTexts \cup {ExampleText}

BaseTable ==
    (<<"t","h","e">> :> 1) @@ (<<"f","i","l","m">> :> 19) @@
    (<<"w","a","s">> :> 14) @@ (<<"g","r","e","a","t">> :> 87)

Tables ==
    {BaseTable @@ (<<"a">> :> ra) : ra \in {3, 9996, 9997}}
    \cup
    {BaseTable @@ (<<"a">> :> ra) @@ (<<"b">> :> 88584) :
        ra \in {3, 9996, 9997}}

Probs == {0, Threshold - 1, Threshold, Threshold + 1, ProbScale}

ModelFile == "imdb_lstm_rnn.h5"

sample_reviews == <<
    <<"T","h","i","s"," ","m","o","v","i","e"," ","w","a","s"," ","a","m",
      "a","z","i","n","g","!"," ","T","h","e"," ","s","t","o","r","y","l",
      "i","n","e"," ","w","a","s"," ","s","t","r","o","n","g"," ","a","n",
      "d"," ","t","h","e"," ","a","c","t","i","n","g"," ","w","a","s"," ",
      "g","r","e","a","t",".">>,
    <<"A","b","s","o","l","u","t","e","l","y"," ","t","e","r","r","i","b",
      "l","e","."," ","W","a","s","t","e"," ","o","f"," ","t","i","m","e",
      ","," ","t","h","e"," ","p","l","o","t"," ","w","a","s"," ","h","o",
      "r","r","i","b","l","e",".">>,
    <<"N","o","t"," ","b","a","d",","," ","b","u","t"," ","n","o","t"," ",
      "g","r","e","a","t","."," ","I","t"," ","w","a","s"," ","o","k","a",
      "y"," ","o","v","e","r","a","l","l",".">>,
    <<"W","h","a","t"," ","a"," ","b","e","a","u","t","i","f","u","l"," ",
      "m","o","v","i","e","."," ","T","h","e"," ","v","i","s","u","a","l",
      "s"," ","a","n","d"," ","m","u","s","i","c"," ","w","e","r","e"," ",
      "s","t","u","n","n","i","n","g",".">>,
    <<"I"," ","h","a","t","e","d"," ","t","h","i","s"," ","f","i","l","m",
      "."," ","I","t"," ","w","a","s"," ","b","o","r","i","n","g"," ","a",
      "n","d"," ","p","r","e","d","i","c","t","a","b","l","e",".">> >>

(***************************************************************************)
(* encode_review, lines 39-54.                                             *)
(***************************************************************************)
\* "idx <= VOCAB_SIZE" in place of "idx < VOCAB_SIZE"
WordEntry_CeilingInclusive(table, word) ==
    IF word \in DOMAIN table
    THEN LET idx == table[word] + INDEX_OFFSET
         IN IF idx <= VOCAB_SIZE THEN idx ELSE 2
    ELSE 2

\* the ceiling test left out
WordEntry_NoCeiling(table, word) ==
    IF word \in DOMAIN table THEN table[word] + INDEX_OFFSET ELSE 2

\* lines 44-51: the entry appended for one word
WordEntry(table, word) ==
    IF word \in DOMAIN table
    THEN LET idx == table[word] + INDEX_OFFSET
         IN IF idx < VOCAB_SIZE THEN idx ELSE 2
    ELSE 2

\* lines 41-51: encoded = [1], then one append per word, in order
EncodeLoop(table, ws) ==
    [k \in 1..(Len(ws) + 1) |->
        IF k = 1 THEN 1 ELSE WordEntry(table, ws[k - 1])]

\* pad_sequences that pads and never truncates
PadSequences_NoTrunc(s, maxlen) ==
    LET pad == IF Len(s) < maxlen THEN maxlen - Len(s) ELSE 0
    IN [k \in 1..(pad + Len(s)) |-> IF k <= pad THEN 0 ELSE s[k - pad]]

\* padding='post'
PadSequences_PostPad(s, maxlen) ==
    LET trunc == IF Len(s) > maxlen
                 THEN SubSeq(s, Len(s) - maxlen + 1, Len(s))
                 ELSE s
    IN [k \in 1..maxlen |-> IF k <= Len(trunc) THEN trunc[k] ELSE 0]

\* truncating='post'
PadSequences_PostTrunc(s, maxlen) ==
    LET trunc == IF Len(s) > maxlen THEN SubSeq(s, 1, maxlen) ELSE s
        pad == maxlen - Len(trunc)
    IN [k \in 1..maxlen |-> IF k <= pad THEN 0 ELSE trunc[k - pad]]

\* line 53: pad_sequences([encoded], maxlen=MAXLEN) with the defaults
\* padding='pre', truncating='pre', value=0; the single row of the result
PadSequences(s, maxlen) ==
    LET trunc == IF Len(s) > maxlen
                 THEN SubSeq(s, Len(s) - maxlen + 1, Len(s))
                 ELSE s
        pad == maxlen - Len(trunc)
    IN [k \in 1..maxlen |-> IF k <= pad THEN 0 ELSE trunc[k - pad]]

\* "prob > 0.5" in place of "prob >= 0.5"
LabelOf_Strict(p) == IF p > Threshold THEN "Positive" ELSE "Negative"

\* line 63
LabelOf(p) == IF p >= Threshold THEN "Positive" ELSE "Negative"

\* lines 129 and 162
ColorOf(l) == IF l = "Positive" THEN "#00C851" ELSE "#ff4444"

(***************************************************************************)
(* State.                                                                  *)
(***************************************************************************)
VARIABLES
    pc,           \* position of the script run, "idle" between runs
    runs,         \* script runs started in this process
    model_cache,  \* st.cache_resource entry of load_model
    wi_cache,     \* st.cache_resource entry of load_word_index
    model_loads,  \* executions of the body of load_model
    wi_loads,     \* executions of the body of load_word_index
    model,        \* module global of the current run (line 23)
    word_index,   \* module global of the current run (line 33)
    user_input,   \* value of the text area (line 118)
    clicked,      \* value of st.button in the current run (line 124)
    i,            \* loop index of the examples loop (line 160)
    text,         \* argument of the predict_review call in progress
    caller,       \* "user" or "example": who called predict_review
    words,        \* encode_review local (line 40)
    encoded,      \* encode_review local (lines 41-51)
    seq,          \* predict_review local (line 61)
    prob,         \* predict_review local (line 62)
    label,        \* predict_review local (line 63)
    inflight,     \* predict_review calls entered and not yet rendered
    n_calls,      \* predict_review calls of the current run
    n_infer,      \* model.predict calls of the current run
    user_infer,   \* model.predict calls of the current run on user_input
    rendered,     \* the boxes the current run has put on the page, by kind
    shown         \* label and colour of the box rendered last

cacheVars == <<model_cache, wi_cache, model_loads, wi_loads>>
globalVars == <<model, word_index>>
widgetVars == <<user_input, clicked>>
localVars == <<text, caller, words, encoded, seq, prob, label>>
countVars == <<inflight, n_calls, n_infer, user_infer>>

vars == <<pc, runs, model_cache, wi_cache, model_loads, wi_loads, model,
          word_index, user_input, clicked, i, text, caller, words, encoded,
          seq, prob, label, inflight, n_calls, n_infer, user_infer,
          rendered, shown>>

Init ==
    /\ pc = "idle"
    /\ runs = 0
    /\ model_cache = None
    /\ wi_cache = None
    /\ model_loads = 0
    /\ wi_loads = 0
    /\ model = None
    /\ word_index = None
    /\ user_input = <<>>
    /\ clicked = FALSE
    /\ i = 1
    /\ text = <<>>
    /\ caller = "none"
    /\ words = <<>>
    /\ encoded = <<>>
    /\ seq = None
    /\ prob = None
    /\ label = None
    /\ inflight = 0
    /\ n_calls = 0
    /\ n_infer = 0
    /\ user_infer = 0
    /\ rendered = <<>>
    /\ shown = None

(***************************************************************************)
(* A script run starts: the page is opened (first run, empty text area, no *)
(* click) or the user edits the text area and/or clicks the button.  The   *)
(* script runs in a fresh namespace; only the resource cache survives.     *)
(***************************************************************************)
Rerun(txt, click) ==
    /\ pc = "idle"
    /\ runs < MaxRuns
    /\ runs = 0 => (txt = <<>> /\ ~click)
    /\ runs' = runs + 1
    /\ user_input' = txt
    /\ clicked' = click
    /\ model' = None
    /\ word_index' = None
    /\ i' = 1
    /\ text' = <<>>
    /\ caller' = "none"
    /\ words' = <<>>
    /\ encoded' = <<>>
    /\ seq' = None
    /\ prob' = None
    /\ label' = None
    /\ inflight' = 0
    /\ n_calls' = 0
    /\ n_infer' = 0
    /\ user_infer' = 0
    /\ rendered' = <<>>
    /\ shown' = None
    /\ pc' = "load_model"
    /\ UNCHANGED cacheVars

\* lines 19-23
load_model ==
    /\ pc = "load_model"
    /\ IF model_cache = None
       THEN /\ model_cache' = Some(ModelFile)
            /\ model_loads' = model_loads + 1
       ELSE UNCHANGED <<model_cache, model_loads>>
    /\ model' = model_cache'
    /\ pc' = "load_word_index"
    /\ UNCHANGED <<runs, wi_cache, wi_loads, word_index, widgetVars, i,
                   localVars, countVars, rendered, shown>>

\* load_word_index without @st.cache_resource: every run loads again
load_word_index_NoCache ==
    /\ pc = "load_word_index"
    /\ \E tbl \in Tables : wi_cache' = Some(tbl)
    /\ wi_loads' = wi_loads + 1
    /\ word_index' = wi_cache'
    /\ pc' = "button"
    /\ UNCHANGED <<runs, model_cache, model_loads, model, widgetVars, i,
                   localVars, countVars, rendered, shown>>

\* lines 29-33
load_word_index ==
    /\ pc = "load_word_index"
    /\ IF wi_cache = None
       THEN /\ \E tbl \in Tables : wi_cache' = Some(tbl)
            /\ wi_loads' = wi_loads + 1
       ELSE UNCHANGED <<wi_cache, wi_loads>>
    /\ word_index' = wi_cache'
    /\ pc' = "button"
    /\ UNCHANGED <<runs, model_cache, model_loads, model, widgetVars, i,
                   localVars, countVars, rendered, shown>>

\* entering predict_review(t) from caller c
Call(t, c) ==
    /\ text' = t
    /\ caller' = c
    /\ inflight' = inflight + 1
    /\ n_calls' = n_calls + 1
    /\ pc' = "encode"

\* lines 124-128: the button handler up to the call of predict_review
ClassifyButton ==
    /\ pc = "button"
    /\ IF ~clicked
       THEN /\ pc' = "examples"
            /\ UNCHANGED <<text, caller, inflight, n_calls, rendered>>
       ELSE IF Len(Strip(user_input)) = 0
            THEN /\ rendered' = Append(rendered, "warning")
                 /\ pc' = "examples"
                 /\ UNCHANGED <<text, caller, inflight, n_calls>>
            ELSE /\ Call(user_input, "user")
                 /\ UNCHANGED rendered
    /\ UNCHANGED <<runs, cacheVars, globalVars, widgetVars, i, words,
                   encoded, seq, prob, label, n_infer, user_infer, shown>>

\* the examples loop stopping one review early
ExampleLoop_OffByOne ==
    /\ pc = "examples"
    /\ IF i < Len(sample_reviews)
       THEN Call(sample_reviews[i], "example")
       ELSE /\ pc' = "idle"
            /\ UNCHANGED <<text, caller, inflight, n_calls>>
    /\ UNCHANGED <<runs, cacheVars, globalVars, widgetVars, i, words,
                   encoded, seq, prob, label, n_infer, user_infer,
                   rendered, shown>>

\* lines 160-161: the head of the examples loop; past the last review the
\* script ends
ExampleLoop ==
    /\ pc = "examples"
    /\ IF i <= Len(sample_reviews)
       THEN Call(sample_reviews[i], "example")
       ELSE /\ pc' = "idle"
            /\ UNCHANGED <<text, caller, inflight, n_calls>>
    /\ UNCHANGED <<runs, cacheVars, globalVars, widgetVars, i, words,
                   encoded, seq, prob, label, n_infer, user_infer,
                   rendered, shown>>

\* encoded = [] in place of encoded = [1]
encode_review_NoStart ==
    /\ pc = "encode"
    /\ words' = Split(Lower(text))
    /\ encoded' = Tail(EncodeLoop(Get(word_index), words'))
    /\ seq' = Some(PadSequences(encoded', MAXLEN))
    /\ pc' = "predict"
    /\ UNCHANGED <<runs, cacheVars, globalVars, widgetVars, i, text, caller,
                   prob, label, countVars, rendered, shown>>

\* line 61 with lines 39-54
encode_review ==
    /\ pc = "encode"
    /\ words' = Split(Lower(text))
    /\ encoded' = EncodeLoop(Get(word_index), words')
    /\ seq' = Some(PadSequences(encoded', MAXLEN))
    /\ pc' = "predict"
    /\ UNCHANGED <<runs, cacheVars, globalVars, widgetVars, i, text, caller,
                   prob, label, countVars, rendered, shown>>

\* line 62: one forward pass of the frozen network
ModelPredict ==
    /\ pc = "predict"
    /\ model # None
    /\ \E p \in Probs : prob' = Some(p)
    /\ n_infer' = n_infer + 1
    /\ user_infer' = IF caller = "user" THEN user_infer + 1 ELSE user_infer
    /\ pc' = "label"
    /\ UNCHANGED <<runs, cacheVars, globalVars, widgetVars, i, text, caller,
                   words, encoded, seq, label, inflight, n_calls, rendered,
                   shown>>

\* line 63
predict_review ==
    /\ pc = "label"
    /\ label' = Some(LabelOf(Get(prob)))
    /\ pc' = "return"
    /\ UNCHANGED <<runs, cacheVars, globalVars, widgetVars, i, text, caller,
                   words, encoded, seq, prob, countVars, rendered, shown>>

\* the call returns (line 64) and its locals are gone
Return ==
    /\ inflight' = inflight - 1
    /\ text' = <<>>
    /\ caller' = "none"
    /\ words' = <<>>
    /\ encoded' = <<>>
    /\ seq' = None
    /\ prob' = None
    /\ label' = None

\* lines 128-144: the result box of the user's review
RenderUser ==
    /\ pc = "return"
    /\ caller = "user"
    /\ Return
    /\ rendered' = Append(rendered, "result")
    /\ shown' = Some([label |-> Get(label), color |-> ColorOf(Get(label))])
    /\ pc' = "examples"
    /\ UNCHANGED <<runs, cacheVars, globalVars, widgetVars, i, n_calls,
                   n_infer, user_infer>>

\* lines 161-177: the box of one example review
RenderExample ==
    /\ pc = "return"
    /\ caller = "example"
    /\ Return
    /\ rendered' = Append(rendered, "example")
    /\ shown' = Some([label |-> Get(label), color |-> ColorOf(Get(label))])
    /\ i' = i + 1
    /\ pc' = "examples"
    /\ UNCHANGED <<runs, cacheVars, globalVars, widgetVars, n_calls,
                   n_infer, user_infer>>

Next ==
    \/ \E txt \in TypedTexts, click \in BOOLEAN : Rerun(txt, click)
    \/ load_model
    \/ load_word_index
    \/ ClassifyButton
    \/ ExampleLoop
    \/ encode_review
    \/ ModelPredict
    \/ predict_review
    \/ RenderUser
    \/ RenderExample

Spec == Init /\ [][Next]_vars

(***************************************************************************)
(* One call predict_review(t) on its own, for the properties of            *)
(* encode_review and predict_review as functions of their input: the text  *)
(* is any text of the input set or an example review, the word index any   *)
(* table.                                                                  *)
(***************************************************************************)
CallTexts == Texts \cup {sample_reviews[k] : k \in 1..Len(sample_reviews)}

InitCall ==
    /\ pc = "encode"
    /\ runs = 1
    /\ model_cache = Some(ModelFile)
    /\ \E tbl \in Tables : wi_cache = Some(tbl)
    /\ model_loads = 1
    /\ wi_loads = 1
    /\ model = model_cache
    /\ word_index = wi_cache
    /\ user_input = <<>>
    /\ clicked = FALSE
    /\ i = 1
    /\ text \in CallTexts
    /\ caller = "example"
    /\ words = <<>>
    /\ encoded = <<>>
    /\ seq = None
    /\ prob = None
    /\ label = None
    /\ inflight = 1
    /\ n_calls = 1
    /\ n_infer = 0
    /\ user_infer = 0
    /\ rendered = <<>>
    /\ shown = None

NextCall ==
    \/ encode_review
    \/ ModelPredict
    \/ predict_review

SpecCall == InitCall /\ [][NextCall]_vars

(***************************************************************************)
(* Properties of one predict_review call, checked under SpecCall.          *)
(***************************************************************************)
Zeros(n) == [k \in 1..n |-> 0]
AllWhitespace(s) == \A k \in 1..Len(s) : s[k] \in Whitespace

\* C1: for every text, with no token, a few tokens or more than MAXLEN
\* tokens, the sequence encode_review returns has exactly MAXLEN entries.
C1_ExactLength == seq # None => Len(Get(seq)) = MAXLEN

C1_Witness ==
    /\ seq # None
    /\ Len(words) > MAXLEN
    /\ Len(Get(seq)) = MAXLEN

\* C2: for a text of n tokens with n + 1 <= MAXLEN, the returned sequence
\* is MAXLEN - (n + 1) zeros, then the start sentinel 1, then the n entries
\* of the tokens in input order; the empty text gives 199 zeros and a 1,
\* and "the film was great" with ranks 1, 19, 14, 87 ends in
\* 1, 4, 22, 17, 90 after zeros only.
C2_PrePadded ==
    (seq # None /\ Len(words) + 1 <= MAXLEN) =>
        LET n == Len(words)
            r == Get(seq)
        IN /\ Len(encoded) = n + 1
           /\ \A k \in 1..(MAXLEN - (n + 1)) : r[k] = 0
           /\ r[MAXLEN - n] = 1
           /\ \A j \in 1..n : r[MAXLEN - n + j] = encoded[j + 1]
           /\ text = <<>> => r = Zeros(199) \o <<1>>
           /\ text = ExampleText => r = Zeros(195) \o <<1, 4, 22, 17, 90>>

C2_Witness ==
    /\ seq # None
    /\ text = ExampleText
    /\ SubSeq(Get(seq), MAXLEN - 4, MAXLEN) = <<1, 4, 22, 17, 90>>

\* C3: when the emitted sequence (the start sentinel and one entry per
\* token) is longer than MAXLEN, the returned sequence is its last MAXLEN
\* entries in order: the earliest entries are dropped, nothing is padded.
C3_TruncatedLeft ==
    (seq # None /\ Len(encoded) > MAXLEN) =>
        /\ Len(encoded) = Len(words) + 1
        /\ Get(seq) = [k \in 1..MAXLEN |-> encoded[Len(encoded) - MAXLEN + k]]

C3_Witness ==
    /\ seq # None
    /\ Len(encoded) > MAXLEN + 1
    /\ Get(seq)[1] # Get(seq)[MAXLEN]
    /\ Get(seq)[MAXLEN] = encoded[Len(encoded)]

\* C4: the entry emitted at a token's position is the unknown sentinel 2
\* when the lower-cased word is absent from the table or its rank plus
\* INDEX_OFFSET is >= VOCAB_SIZE, and rank + INDEX_OFFSET otherwise; rank
\* 9996 emits 9999 and rank 9997 emits 2.
C4_WordEntries ==
    seq # None =>
        LET table == Get(word_index)
        IN /\ Len(encoded) = Len(words) + 1
           /\ \A j \in 1..Len(words) :
                LET w == words[j]
                    e == encoded[j + 1]
                IN /\ \A k \in 1..Len(w) :
                        w[k] \notin Whitespace /\ LowerChar(w[k]) = w[k]
                   /\ w \notin DOMAIN table => e = 2
                   /\ (w \in DOMAIN table
                        /\ table[w] + INDEX_OFFSET >= VOCAB_SIZE) => e = 2
                   /\ (w \in DOMAIN table
                        /\ table[w] + INDEX_OFFSET < VOCAB_SIZE) =>
                            e = table[w] + INDEX_OFFSET
                   /\ (w \in DOMAIN table /\ table[w] = 9996) => e = 9999
                   /\ (w \in DOMAIN table /\ table[w] = 9997) => e = 2

C4_Witness ==
    /\ seq # None
    /\ \E j \in 1..Len(words) :
          /\ words[j] \in DOMAIN Get(word_index)
          /\ Get(word_index)[words[j]] = 9997
          /\ encoded[j + 1] = 2
    /\ \E j \in 1..Len(words) : words[j] \notin DOMAIN Get(word_index)

\* the first entry of r that is not the padding value 0
NonZero(r) == {k \in 1..Len(r) : r[k] # 0}
FirstContent(r) == CHOOSE k \in NonZero(r) : \A m \in NonZero(r) : k <= m

\* C5 as stated: in every returned sequence the first content (non-padding)
\* token is the start sentinel 1.
C5_FirstContentIsStart ==
    seq # None =>
        /\ NonZero(Get(seq)) # {}
        /\ Get(seq)[FirstContent(Get(seq))] = 1

\* C5 amended: for a text of fewer than MAXLEN tokens the first content
\* token of the returned sequence is the start sentinel 1; for a text of
\* MAXLEN or more tokens the start sentinel is truncated away and the first
\* entry is the entry of a token, never 1.
C5_StartUnlessTruncated ==
    seq # None =>
        LET r == Get(seq)
        IN /\ NonZero(r) # {}
           /\ Len(words) < MAXLEN => r[FirstContent(r)] = 1
           /\ Len(words) >= MAXLEN =>
                /\ FirstContent(r) = 1
                /\ r[1] = encoded[Len(words) - MAXLEN + 2]
                /\ r[1] # 1

C5_Witness ==
    /\ seq # None
    /\ Len(words) = MAXLEN
    /\ encoded[1] = 1
    /\ Get(seq)[1] # 1

\* C6: the label is "Positive" exactly when the probability is >= 0.5 and
\* "Negative" otherwise, never a third value; exactly 0.5 is Positive and
\* 0.4999 is Negative.
C6_Threshold ==
    label # None =>
        /\ Get(label) \in {"Positive", "Negative"}
        /\ Get(label) = "Positive" <=> 2 * Get(prob) >= ProbScale
        /\ 2 * Get(prob) = ProbScale => Get(label) = "Positive"
        /\ Get(prob) = 4999 => Get(label) = "Negative"

C6_Witness ==
    /\ label = Some("Positive")
    /\ 2 * Get(prob) = ProbScale

\* C10: every entry of the sequence handed to the model lies in
\* 0 .. VOCAB_SIZE - 1, for every text and every table of positive ranks.
C10_BelowCeiling ==
    seq # None =>
        \A k \in 1..Len(Get(seq)) : Get(seq)[k] \in 0..(VOCAB_SIZE - 1)

C10_Witness ==
    /\ pc = "predict"
    /\ seq # None
    /\ \E j \in 1..Len(words) :
          /\ words[j] \in DOMAIN Get(word_index)
          /\ Get(word_index)[words[j]] >= VOCAB_SIZE
          /\ j + 1 > Len(encoded) - MAXLEN

(***************************************************************************)
(* Properties of the script runs, checked under Spec.                      *)
(***************************************************************************)
Finished == pc = "idle" /\ runs > 0
PastButton == pc \notin {"load_model", "load_word_index", "button"}
BlankClick == runs > 0 /\ clicked /\ AllWhitespace(user_input)
InCall == pc \in {"encode", "predict", "label", "return"}

\* C7 as stated: a click with an empty or whitespace-only input shows a
\* warning and no inference is attempted.
C7_NoInferenceAtAll ==
    (BlankClick /\ Finished) =>
        /\ rendered # <<>>
        /\ rendered[1] = "warning"
        /\ n_infer = 0

\* C7 amended: a click with an empty or whitespace-only input shows a
\* warning and no inference on the user's input is attempted; the run still
\* infers each of the five example reviews.
C7_NoInferenceOnInput ==
    (BlankClick /\ PastButton) =>
        /\ rendered # <<>>
        /\ rendered[1] = "warning"
        /\ \A k \in 1..Len(rendered) : rendered[k] # "result"
        /\ user_infer = 0
        /\ caller # "user"
        /\ Finished => n_infer = Len(sample_reviews)

C7_Witness ==
    /\ BlankClick
    /\ Finished
    /\ user_input # <<>>
    /\ \E k \in 1..Len(user_input) : user_input[k] = "\n"
    /\ rendered[1] = "warning"

C9_Loaded ==
    /\ model_loads <= 1
    /\ wi_loads <= 1
    /\ model # None => (model = model_cache /\ model_loads = 1)
    /\ word_index # None => (word_index = wi_cache /\ wi_loads = 1)
    /\ (runs >= 1 /\ pc # "load_model") =>
            (model # None /\ model_loads = 1)
    /\ (runs >= 1 /\ pc \notin {"load_model", "load_word_index"}) =>
            (word_index # None /\ wi_loads = 1)
    /\ runs >= 2 => (model_loads = 1 /\ wi_loads = 1)

C9_Kept ==
    /\ model_cache # None => model_cache' = model_cache
    /\ wi_cache # None => wi_cache' = wi_cache
    /\ (model # None /\ runs' = runs) => model' = model
    /\ (word_index # None /\ runs' = runs) => word_index' = word_index

C9_LoadedOnce == []C9_Loaded /\ [][C9_Kept]_vars

C9_Witness ==
    /\ runs = 2
    /\ pc = "button"
    /\ wi_loads = 1
    /\ model_loads = 1
    /\ word_index = wi_cache
    /\ model = model_cache
====
